---- MODULE Spec2Model ----
(***************************************************************************)
(* payloadAPIRouterMiddleware (src/src/index.ts): an Express router that   *)
(* maps HTTP requests onto calls of the Payload Local API.                 *)
(*                                                                         *)
(* The model follows one request at a time through the router's layer      *)
(* stack, in registration order:                                           *)
(*   1  router.all(<regex: /api/x..., /auth/x...>)     custom endpoints    *)
(*   2  router.use("/api/:collection/")                collection check    *)
(*   3  POST   /api/:collection/login                                      *)
(*   4  POST   /api/:collection/logout                                     *)
(*   5  GET    /api/:collection/me                                         *)
(*   6  GET    /api/:collection                                            *)
(*   7  GET    /api/:collection/count                                      *)
(*   8  GET    /api/:collection/:id                                        *)
(*   9  POST   /api/:collection                                            *)
(*  10  PATCH  /api/:collection/:id                                        *)
(*  11  DELETE /api/:collection/:id                                        *)
(*  12  router.use(<four-argument handler>)            error translator    *)
(*                                                                         *)
(* The content engine (payload) and the custom endpoint handlers are       *)
(* outside the repository: each of their calls returns or throws one of a  *)
(* small set of outcomes, chosen nondeterministically.                     *)
(***************************************************************************)
EXTENDS Integers, Sequences, FiniteSets

(***************************************************************************)
(* JavaScript values.  Every scalar is a record of the same shape so that  *)
(* values of different JavaScript types can be compared.  A string is a    *)
(* sequence of atoms.  In a query string an atom is one character ("0" to  *)
(* "9", ".", " ") or a word that is no part of a number ("abc", "true");   *)
(* in a message an atom is a phrase ("Not Found").  A number is n + d/10   *)
(* with n >= 0 and d one decimal digit: the inputs below hold no sign, no  *)
(* exponent and at most one fractional digit.  An object (a document, an   *)
(* error, a response body, the arguments of a call) is a function from     *)
(* its keys to its values.                                                 *)
(***************************************************************************)
Undefined == [t |-> "undefined", s |-> <<>>, n |-> 0, d |-> 0]

Null == [t |-> "null", s |-> <<>>, n |-> 0, d |-> 0]

NaN == [t |-> "nan", s |-> <<>>, n |-> 0, d |-> 0]

Str(atoms) == [t |-> "string", s |-> atoms, n |-> 0, d |-> 0]

Lit(atom) == Str(<<atom>>)

Num(whole, tenth) == [t |-> "number", s |-> <<>>, n |-> whole, d |-> tenth]

Bool(b) == [t |-> "boolean", s |-> <<>>, n |-> IF b THEN 1 ELSE 0, d |-> 0]

\* An object the model does not look into (a document, a request body, the
\* live request); tag tells them apart.
Obj(tag) == [t |-> "object", s |-> <<tag>>, n |-> 0, d |-> 0]

LiveReq == Obj("req")

Digits == <<"0", "1", "2", "3", "4", "5", "6", "7", "8", "9">>

IsDigit(c) == \E i \in 1..10 : Digits[i] = c

DigitVal(c) == (CHOOSE i \in 1..10 : Digits[i] = c) - 1

IsBlank(c) == c = " "

RECURSIVE TrimStart(_)
TrimStart(a) ==
    IF a # <<>> /\ IsBlank(Head(a)) THEN TrimStart(Tail(a)) ELSE a

RECURSIVE TrimEnd(_)
TrimEnd(a) ==
    IF a # <<>> /\ IsBlank(a[Len(a)]) THEN TrimEnd(SubSeq(a, 1, Len(a) - 1)) ELSE a

\* The longest prefix of digits of a, as a number, and its length.
RECURSIVE DigitPrefixLen(_)
DigitPrefixLen(a) ==
    IF a # <<>> /\ IsDigit(Head(a)) THEN 1 + DigitPrefixLen(Tail(a)) ELSE 0

RECURSIVE DigitsValue(_)
DigitsValue(a) ==
    IF a = <<>> THEN 0
    ELSE 10 * DigitsValue(SubSeq(a, 1, Len(a) - 1)) + DigitVal(a[Len(a)])

\* Number(value) of a string: blanks are trimmed, the empty string is 0,
\* "ddd" and "ddd.d" (also "ddd." and ".d") are numbers, all else is NaN.
StringToNumber(a) ==
    LET b == TrimEnd(TrimStart(a))
        k == DigitPrefixLen(b)
    IN  IF b = <<>> THEN Num(0, 0)
        ELSE IF k = Len(b) THEN Num(DigitsValue(b), 0)
        ELSE IF b[k + 1] = "." /\ Len(b) = k + 1 /\ k > 0
             THEN Num(DigitsValue(SubSeq(b, 1, k)), 0)
        ELSE IF b[k + 1] = "." /\ Len(b) = k + 2 /\ IsDigit(b[k + 2])
             THEN Num(DigitsValue(SubSeq(b, 1, k)), DigitVal(b[k + 2]))
        ELSE NaN

RECURSIVE NatToString(_)
NatToString(n) ==
    IF n < 10 THEN <<Digits[n + 1]>>
    ELSE NatToString(n \div 10) \o <<Digits[(n % 10) + 1]>>

\* String(value)
StringOf(v) ==
    CASE v.t = "string" -> v.s
      [] v.t = "number" ->
            IF v.d = 0 THEN NatToString(v.n)
            ELSE NatToString(v.n) \o <<".", Digits[v.d + 1]>>
      [] v.t = "nan" -> <<"NaN">>
      [] v.t = "boolean" -> IF v.n = 1 THEN <<"true">> ELSE <<"false">>
      [] v.t = "undefined" -> <<"undefined">>
      [] v.t = "null" -> <<"null">>
      [] OTHER -> <<"[object Object]">>

\* parseInt(value): the value as a string, leading blanks skipped, then the
\* longest run of digits; NaN when there is none.
ParseInt(v) ==
    LET b == TrimStart(StringOf(v))
        k == DigitPrefixLen(b)
    IN  IF k = 0 THEN NaN ELSE Num(DigitsValue(SubSeq(b, 1, k)), 0)

\* The truthiness of a value in a condition (v ? a : b, !v).
Truthy(v) ==
    CASE v.t = "undefined" -> FALSE
      [] v.t = "null" -> FALSE
      [] v.t = "nan" -> FALSE
      [] v.t = "number" -> v.n # 0 \/ v.d # 0
      [] v.t = "string" -> v.s # <<>>
      [] v.t = "boolean" -> v.n = 1
      [] OTHER -> TRUE

IsInteger(v) == v.t = "number" /\ v.d = 0

\* obj[key] of an object modelled as a function: undefined when absent.
Get(obj, key) == IF key \in DOMAIN obj THEN obj[key] ELSE Undefined

\* { ...a, ...b }: the keys of both, b's value where both have the key.
Spread(a, b) ==
    [k \in DOMAIN a \cup DOMAIN b |-> IF k \in DOMAIN b THEN b[k] ELSE a[k]]

EmptyObject == [k \in {} |-> Undefined]


Min(S) == CHOOSE x \in S : \A y \in S : x <= y

Range(f) == {f[i] : i \in DOMAIN f}

(***************************************************************************)
(* The content engine's configuration, as the router reads it.             *)
(***************************************************************************)
\* Object.keys(payload.collections)
Collections == {"users", "posts"}

\* payload.config.secret: unset, or a shared secret.
Secrets == {<<>>, <<"MY_SECRET">>}

\* The most custom endpoints payload.config.endpoints holds.
MaxEndpoints == 2

Endpoint(path, method, handler) ==
    [path |-> path, method |-> method, handler |-> handler]

\* The custom endpoints a configuration may register: two on one path with
\* different methods (one spelled in lower case), one on the path of a
\* collection, and one without a handler.
EndpointSet ==
    { Endpoint(<<"api", "special">>, "get", TRUE),
      Endpoint(<<"api", "special">>, "POST", TRUE),
      Endpoint(<<"api", "posts">>, "GET", TRUE),
      Endpoint(<<"auth", "special">>, "GET", FALSE) }

\* The lists of endpoints a configuration may hold: up to MaxEndpoints of
\* them, in any order, none registered twice.
EndpointLists ==
    UNION {{l \in [1..n -> EndpointSet] : \A i, j \in 1..n : l[i] = l[j] => i = j} :
           n \in 0..MaxEndpoints}

\* String.prototype.toUpperCase on a method name
ToUpperCase(m) ==
    CASE m = "get" -> "GET"
      [] m = "post" -> "POST"
      [] m = "patch" -> "PATCH"
      [] m = "delete" -> "DELETE"
      [] OTHER -> m

(***************************************************************************)
(* Requests.  A path is the sequence of its segments; a query is a         *)
(* function from raw keys (each one atom) to raw values (strings).         *)
(***************************************************************************)
Methods == {"GET", "POST", "PATCH", "DELETE"}

Paths ==
    { <<"api", "posts">>, <<"api", "posts", "count">>, <<"api", "posts", "me">>,
      <<"api", "posts", "7">>, <<"api", "users", "login">>,
      <<"api", "users", "logout">>, <<"api", "special">>,
      <<"auth", "special">>, <<"api", "pages", "7">> }

Token(form, key, expired, id) ==
    [form |-> form, key |-> key, expired |-> expired, id |-> id]

\* crypto.createHash("sha256").update(secret).digest("hex").slice(0, 32)
DeriveKey(secret) == [hash |-> "sha256-hex-32", of |-> secret]

RawKey(secret) == [hash |-> "none", of |-> secret]

NoToken == Token("empty", RawKey(<<>>), FALSE, Undefined)

Header(present, scheme, blanks, token) ==
    [present |-> present, scheme |-> scheme, blanks |-> blanks, token |-> token]

GoodKey == DeriveKey(<<"MY_SECRET">>)

\* The Authorization headers a request may carry: none; another scheme;
\* "Bearer " with no token; "Bearer  t" (two blanks); a JWT signed with the
\* secret itself rather than the derived key; an expired JWT; a JWT without
\* id; a good JWT for user 7.
AuthHeaders ==
    { Header(FALSE, "", 0, NoToken),
      Header(TRUE, "Basic", 1, Token("garbage", RawKey(<<>>), FALSE, Undefined)),
      Header(TRUE, "Bearer", 1, NoToken),
      Header(TRUE, "Bearer", 2, Token("jwt", GoodKey, FALSE, Lit("7"))),
      Header(TRUE, "Bearer", 1, Token("jwt", RawKey(<<"MY_SECRET">>), FALSE, Lit("7"))),
      Header(TRUE, "Bearer", 1, Token("jwt", GoodKey, TRUE, Lit("7"))),
      Header(TRUE, "Bearer", 1, Token("jwt", GoodKey, FALSE, Undefined)),
      Header(TRUE, "Bearer", 1, Token("jwt", GoodKey, FALSE, Lit("7"))) }

Pair(k, v) == [x \in {k} |-> v]

\* The raw query strings: none, depth=0, depth=2, depth=2.5,
\* depth=1&limit=10, q= (an empty value), draft=true&sort=title,
\* collection=users, id=9&overrideAccess=true.
Queries ==
    { EmptyObject,
      Pair("depth", <<"0">>),
      Pair("depth", <<"2">>),
      Pair("depth", <<"2", ".", "5">>),
      Spread(Pair("depth", <<"1">>), Pair("limit", <<"1", "0">>)),
      Pair("q", <<>>),
      Spread(Pair("draft", <<"true">>), Pair("sort", <<"title">>)),
      Pair("collection", <<"users">>),
      Spread(Pair("id", <<"9">>), Pair("overrideAccess", <<"true">>)) }

\* The requests: any method on any path with any header; a GET may carry a
\* query string.
QueriesOf(method) == IF method = "GET" THEN Queries ELSE {EmptyObject}

Request(method, path, auth, rawQuery) ==
    [method |-> method, path |-> path, auth |-> auth, rawQuery |-> rawQuery]

NoRequest == Request("", <<>>, Header(FALSE, "", 0, NoToken), EmptyObject)

\* req.query as Express sets it before the router runs: every value a string.
DefaultQuery(rawQuery) ==
    [k \in DOMAIN rawQuery |-> Str(rawQuery[k])]


(***************************************************************************)
(* The router's layer stack.                                               *)
(***************************************************************************)
Layer(kind, method, pattern, chain) ==
    [kind |-> kind, method |-> method, pattern |-> pattern, chain |-> chain]

Layers ==
    << Layer("regex", "*", <<>>, <<"customEndpoint">>),
       Layer("use", "*", <<"api", ":collection">>, <<"collectionCheck">>),
       Layer("route", "POST", <<"api", ":collection", "login">>, <<"login">>),
       Layer("route", "POST", <<"api", ":collection", "logout">>, <<"logout">>),
       Layer("route", "GET", <<"api", ":collection", "me">>,
             <<"payloadJwtAuthMiddleware", "me">>),
       Layer("route", "GET", <<"api", ":collection">>,
             <<"payloadJwtAuthMiddleware", "isAuthenticated", "queryParser", "findMany">>),
       Layer("route", "GET", <<"api", ":collection", "count">>,
             <<"payloadJwtAuthMiddleware", "isAuthenticated", "queryParser", "count">>),
       Layer("route", "GET", <<"api", ":collection", ":id">>,
             <<"payloadJwtAuthMiddleware", "isAuthenticated", "findByID">>),
       Layer("route", "POST", <<"api", ":collection">>,
             <<"payloadJwtAuthMiddleware", "isAuthenticated", "create">>),
       Layer("route", "PATCH", <<"api", ":collection", ":id">>,
             <<"payloadJwtAuthMiddleware", "isAuthenticated", "update">>),
       Layer("route", "DELETE", <<"api", ":collection", ":id">>,
             <<"payloadJwtAuthMiddleware", "isAuthenticated", "delete">>),
       Layer("error", "*", <<>>, <<"errorHandler">>) >>

ParamNames == {":collection", ":id"}

\* A route's path matches when the segments agree one by one.
PatternMatch(pattern, path) ==
    /\ Len(pattern) = Len(path)
    /\ \A i \in 1..Len(pattern) : pattern[i] \in ParamNames \/ pattern[i] = path[i]

\* router.use(path, ...) matches every path that starts with it.
PrefixMatch(pattern, path) ==
    /\ Len(pattern) <= Len(path)
    /\ PatternMatch(pattern, SubSeq(path, 1, Len(pattern)))

\* The regular expression of the first layer: /api/x or /auth/x, x not
\* empty, then nothing or more segments.
RegexMatch(path) ==
    Len(path) >= 2 /\ path[1] \in {"api", "auth"}

\* req.params of the first layer: the expression has three unnamed groups,
\* so the parameters are named "0", "1" and "2".
RegexParams(path) ==
    [k \in {"0", "1", "2"} |->
        CASE k = "0" -> Lit(path[1])
          [] k = "1" -> Lit(path[2])
          [] OTHER -> IF Len(path) > 2 THEN Str(SubSeq(path, 3, Len(path)))
                      ELSE Undefined]

\* req.params of a route or of router.use(path)
RouteParams(pattern, path) ==
    [k \in {p \in ParamNames : \E i \in 1..Len(pattern) : pattern[i] = p} |->
        Lit(path[CHOOSE i \in 1..Len(pattern) : pattern[i] = k])]

LayerMatches(j, rq, hasErr) ==
    LET l == Layers[j]
    IN  CASE l.kind = "error" -> hasErr
          [] l.kind = "regex" -> ~hasErr /\ RegexMatch(rq.path)
          [] l.kind = "use" -> ~hasErr /\ PrefixMatch(l.pattern, rq.path)
          [] OTHER -> /\ ~hasErr
                      /\ l.method = rq.method
                      /\ PatternMatch(l.pattern, rq.path)

\* The next layer after `from` that takes the request; 0 when none does.
Dispatch(from, rq, hasErr) ==
    LET S == {j \in (from + 1)..Len(Layers) : LayerMatches(j, rq, hasErr)}
    IN  IF S = {} THEN 0 ELSE Min(S)


(***************************************************************************)
(* What the content engine and the custom endpoint handlers may do.        *)
(***************************************************************************)
\* An object with the given keys, the undefined ones left out.
ErrorObject(name, status, message) ==
    LET all == [name |-> name, status |-> status, message |-> message]
    IN  [k \in {x \in DOMAIN all : all[x] # Undefined} |-> all[k]]

FieldErrors == [data |-> [errors |-> Obj("fieldErrors")]]

\* The values a call of the engine may throw: a validation error; an error
\* with field errors, status 401 and a not-found message; a validation error
\* by name only; an authentication error; status 401 with a not-found
\* message; the engine's not-found error; a database cast error; any other
\* error; a thrown value that has no property at all.
EngineErrors ==
    { Spread(ErrorObject(Lit("ValidationError"), Num(400, 0),
                         Lit("The following field is invalid: title")), FieldErrors),
      Spread(ErrorObject(Lit("Error"), Num(401, 0), Lit("Not Found")), FieldErrors),
      ErrorObject(Lit("ValidationError"), Undefined, Lit("invalid")),
      ErrorObject(Lit("AuthenticationError"), Num(401, 0),
                  Lit("The email or password provided is incorrect.")),
      ErrorObject(Lit("Error"), Num(401, 0), Lit("Not Found")),
      ErrorObject(Lit("NotFound"), Num(404, 0), Lit("Not Found")),
      ErrorObject(Lit("CastError"), Undefined,
                  Str(<<"Cast to ObjectId failed", " for value 7">>)),
      ErrorObject(Lit("Error"), Undefined, Lit("boom")),
      EmptyObject }

\* The TypeError the JavaScript runtime throws.
TypeError(message) == ErrorObject(Lit("TypeError"), Undefined, Lit(message))

Doc(id) == [id |-> id, title |-> Lit("t"), sessions |-> Obj("sessions")]

Envelope == [docs |-> Obj("docs"), totalDocs |-> Num(1, 0), page |-> Num(1, 0)]

\* What an operation of the engine returns when it returns.
EngineReturns(op, id) ==
    CASE op = "findByID" -> {Doc(id), Null}
      [] op = "find" -> {Envelope}
      [] op = "count" -> {[totalDocs |-> Num(1, 0)]}
      [] op = "login" -> {[token |-> Lit("jwt"), user |-> Obj("user")]}
      [] op = "logout" -> {[message |-> Lit("Logged out")]}
      [] OTHER -> {Doc(id)}

Outcome(threw, value) == [threw |-> threw, value |-> value]

EngineOutcomes(op, id) ==
    {Outcome(FALSE, v) : v \in EngineReturns(op, id)}
        \cup {Outcome(TRUE, e) : e \in EngineErrors}

\* What a custom endpoint's handler may do: throw, or return a result with a
\* status (0: none) whose json() returns or throws.
HandlerOutcome(threw, status, jsonThrows) ==
    [threw |-> threw, status |-> status, jsonThrows |-> jsonThrows]

HandlerOutcomes ==
    { HandlerOutcome(TRUE, 0, FALSE),
      HandlerOutcome(FALSE, 200, FALSE),
      HandlerOutcome(FALSE, 0, FALSE),
      HandlerOutcome(FALSE, 302, FALSE),
      HandlerOutcome(FALSE, 404, FALSE),
      HandlerOutcome(FALSE, 200, TRUE) }

(***************************************************************************)
(* State.                                                                  *)
(***************************************************************************)
VARIABLES
    secret,     \* payload.config.secret
    simple,     \* options.simpleResponses
    endpoints,  \* payload.config.endpoints
    req,        \* the request in flight, or the last one
    query,      \* req.query
    user,       \* req.user
    layer,      \* the layer of the stack that runs next; 0: no request in flight
    step,       \* the handler of that layer's chain that runs next
    err,        \* the errors passed to next, in order; the last is in flight
    res,        \* the response
    calls,      \* the calls of the engine made for the request, in order
    invoked,    \* the custom endpoints whose handler was called, in order
    log,        \* what each handler did with next and res, in order
    exit        \* how the request left the router

config == <<secret, simple, endpoints>>

vars == <<secret, simple, endpoints, req, query, user, layer, step, err, res,
          calls, invoked, log, exit>>

NoResponse == [sent |-> FALSE, status |-> 0, kind |-> "", body |-> EmptyObject]

Response(status, kind, body) ==
    [sent |-> TRUE, status |-> status, kind |-> kind, body |-> body]

\* JSON.stringify of an object: keys whose value is undefined are left out.
Json(obj) == [k \in {x \in DOMAIN obj : obj[x] # Undefined} |-> obj[k]]

\* A call of the engine: the operation, the handler that made it, the
\* arguments, and what the engine did.
Call(op, by, args, outcome) ==
    [op |-> op, by |-> by, args |-> args, outcome |-> outcome]

Event(who, what) == [who |-> who, what |-> what]

Current == IF layer = 0 THEN "" ELSE Layers[layer].chain[step]

Place(l, s, e) == [layer |-> l, step |-> s, exit |-> e]

\* next(): the next handler of the chain, or the next layer that matches.
AfterNext ==
    IF step < Len(Layers[layer].chain) THEN Place(layer, step + 1, "none")
    ELSE LET j == Dispatch(layer, req, FALSE)
         IN  IF j = 0 THEN Place(0, 0, "fallthrough") ELSE Place(j, 1, "none")

\* next(err): the next error-handling layer; none left: the error leaves
\* the router.
AfterError ==
    LET j == Dispatch(layer, req, TRUE)
    IN  IF j = 0 THEN Place(0, 0, "error") ELSE Place(j, 1, "none")

\* next("router"): the rest of the router is skipped.
AfterRouter == Place(0, 0, "fallthrough")

\* A response was sent and next was not called.
AfterSend == Place(0, 0, "responded")

Goto(p) ==
    /\ layer' = p.layer
    /\ step' = p.step
    /\ exit' = p.exit

Init ==
    /\ secret \in Secrets
    /\ simple \in BOOLEAN
    /\ endpoints \in EndpointLists
    /\ req = NoRequest
    /\ query = EmptyObject
    /\ user = Undefined
    /\ layer = 0
    /\ step = 0
    /\ err = <<>>
    /\ res = NoResponse
    /\ calls = <<>>
    /\ invoked = <<>>
    /\ log = <<>>
    /\ exit = "none"

\* A request arrives at the router.  The router keeps nothing from one
\* request to the next, so a behaviour follows one request from the state
\* the router is constructed in.
Receive ==
    /\ layer = 0
    /\ exit = "none"
    /\ \E m \in Methods, p \in Paths, h \in AuthHeaders :
       \E q \in QueriesOf(m) :
          /\ req' = Request(m, p, h, q)
          /\ query' = DefaultQuery(q)
          /\ LET j == Dispatch(0, Request(m, p, h, q), FALSE)
             IN  IF j = 0 THEN Goto(Place(0, 0, "fallthrough"))
                 ELSE Goto(Place(j, 1, "none"))
    /\ user' = Undefined
    /\ err' = <<>>
    /\ res' = NoResponse
    /\ calls' = <<>>
    /\ invoked' = <<>>
    /\ log' = <<>>
    /\ UNCHANGED config


Next_(who) ==
    /\ log' = Append(log, Event(who, "next"))
    /\ Goto(AfterNext)

\* asyncHandler: a rejected handler is passed to next.
Throw(who, e) ==
    /\ err' = Append(err, e)
    /\ log' = Append(log, Event(who, "next(err)"))
    /\ Goto(AfterError)

Send(who, response) ==
    /\ res' = response
    /\ log' = Append(log, Event(who, "send"))
    /\ Goto(AfterSend)

(***************************************************************************)
(* Layer 1: custom endpoints.                                              *)
(***************************************************************************)
\* payload.config.endpoints.find((e) => e.path === fullPath): the index of
\* the first endpoint on the path, 0 when there is none.
FindEndpoint(list, fullPath) ==
    LET S == {i \in 1..Len(list) : list[i].path = fullPath}
    IN  IF S = {} THEN 0 ELSE Min(S)

\* payloadCollections.includes(value)
IncludesCollection(value) == \E c \in Collections : Lit(c) = value

EndpointJson == [data |-> Obj("endpoint json")]

CustomEndpoint ==
    /\ Current = "customEndpoint"
    /\ LET customPath == Get(RegexParams(req.path), "customPath")
           fullPath == req.path
           i == FindEndpoint(endpoints, fullPath)
       IN  IF IncludesCollection(customPath)
           THEN Next_("customEndpoint") /\ UNCHANGED <<res, invoked>>
           ELSE IF i = 0 \/ ~endpoints[i].handler
           THEN Next_("customEndpoint") /\ UNCHANGED <<res, invoked>>
           ELSE IF ToUpperCase(endpoints[i].method) # req.method
           THEN Next_("customEndpoint") /\ UNCHANGED <<res, invoked>>
           ELSE \E o \in HandlerOutcomes :
                  /\ invoked' = Append(invoked, i)
                  /\ IF o.threw
                     THEN /\ log' = Append(log, Event("customEndpoint", "next(router)"))
                          /\ Goto(AfterRouter)
                          /\ UNCHANGED res
                     ELSE IF o.status >= 300 /\ o.status < 400
                     THEN Send("customEndpoint",
                               Response(o.status, "redirect",
                                        [location |-> Lit("/elsewhere")]))
                     ELSE IF o.jsonThrows
                     THEN /\ log' = Append(log, Event("customEndpoint", "next(router)"))
                          /\ Goto(AfterRouter)
                          /\ UNCHANGED res
                     ELSE Send("customEndpoint",
                               Response(IF o.status = 0 THEN 200 ELSE o.status,
                                        "json", EndpointJson))
    /\ UNCHANGED <<config, req, query, user, err, calls>>

(***************************************************************************)
(* Layer 2: requests for an unknown collection leave the router.           *)
(***************************************************************************)
CollectionCheck ==
    /\ Current = "collectionCheck"
    /\ LET collection == Get(RouteParams(Layers[layer].pattern, req.path),
                             ":collection")
       IN  IF ~IncludesCollection(collection)
           THEN /\ log' = Append(log, Event("collectionCheck", "next(router)"))
                /\ Goto(AfterRouter)
           ELSE Next_("collectionCheck")
    /\ UNCHANGED <<config, req, query, user, err, res, calls, invoked>>

(***************************************************************************)
(* payloadJwtAuthMiddleware                                                *)
(***************************************************************************)
\* authHeader.startsWith("Bearer ")
StartsWithBearer(h) == h.scheme = "Bearer" /\ h.blanks >= 1

\* authHeader.split(" ")[1]: what stands between the first blank and the
\* second, which is nothing when two blanks follow the scheme.
SplitToken(h) == IF h.blanks = 1 THEN h.token ELSE NoToken

\* A verification that accepts expired tokens.
JwtVerifiesIgnoringExpiry(token, key) ==
    token.form = "jwt" /\ token.key = key

\* jwt.verify(token, key) returns the payload; it throws for a token that
\* is no JWT, was signed with another key, or has expired.
JwtVerifies(token, key) ==
    token.form = "jwt" /\ token.key = key /\ ~token.expired

PayloadJwtAuthMiddleware ==
    /\ Current = "payloadJwtAuthMiddleware"
    /\ LET authHeader == req.auth
           token == SplitToken(authHeader)
           userId == token.id
       IN  IF secret = <<>> \/ ~authHeader.present \/ ~StartsWithBearer(authHeader)
           THEN UNCHANGED <<user, calls>>
           ELSE IF token.form = "empty"
           THEN UNCHANGED <<user, calls>>
           ELSE IF ~JwtVerifies(token, DeriveKey(secret))
           THEN UNCHANGED <<user, calls>>
           ELSE IF ~Truthy(userId)
           THEN UNCHANGED <<user, calls>>
           ELSE \E o \in EngineOutcomes("findByID", userId) :
                  /\ calls' = Append(calls,
                        Call("findByID", "payloadJwtAuthMiddleware",
                             [collection |-> Lit("users"), id |-> userId,
                              overrideAccess |-> Bool(TRUE), req |-> LiveReq], o))
                  /\ user' = IF ~o.threw /\ o.value # Null THEN o.value ELSE user
    /\ Next_("payloadJwtAuthMiddleware")
    /\ UNCHANGED <<config, req, query, err, res, invoked>>

(***************************************************************************)
(* isAuthenticated                                                         *)
(***************************************************************************)
Unauthorized ==
    [error |-> Lit("Unauthorized"),
     message |-> Lit("Payload: Authentication required to perform actions.")]

\* A gate that only rejects a user that is null.
NoUserOnlyNull(u) == u = Null

\* !req.user
NoUser(u) == u = Undefined \/ u = Null

IsAuthenticated ==
    /\ Current = "isAuthenticated"
    /\ IF NoUser(user)
       THEN Send("isAuthenticated", Response(401, "json", Unauthorized))
       ELSE Next_("isAuthenticated") /\ UNCHANGED res
    /\ UNCHANGED <<config, req, query, user, err, calls, invoked>>

(***************************************************************************)
(* queryParser                                                             *)
(***************************************************************************)
\* The decoder handed to the query-string parser.
Decoder(value) ==
    IF StringToNumber(value) # NaN THEN StringToNumber(value)
    ELSE IF value = <<"true">> THEN Bool(TRUE)
    ELSE IF value = <<"false">> THEN Bool(FALSE)
    ELSE Str(value)

\* The parser decodes keys with the same decoder and uses the result as a
\* property name.
DecodeKey(k) == StringOf(Decoder(<<k>>))[1]

ParseQuery(rawQuery) ==
    [k \in {DecodeKey(r) : r \in DOMAIN rawQuery} |->
        Decoder(rawQuery[CHOOSE r \in DOMAIN rawQuery : DecodeKey(r) = k])]

QueryParser ==
    /\ Current = "queryParser"
    /\ query' = ParseQuery(req.rawQuery)
    /\ Next_("queryParser")
    /\ UNCHANGED <<config, req, user, err, res, calls, invoked>>


(***************************************************************************)
(* The route handlers.  Each forwards one call to the engine; what the     *)
(* engine throws goes to next.                                             *)
(***************************************************************************)
Params == RouteParams(Layers[layer].pattern, req.path)

RequestBody == Obj("req.body")

Login ==
    /\ Current = "login"
    /\ LET args == [collection |-> Get(Params, ":collection"), data |-> RequestBody,
                    req |-> LiveReq, res |-> Obj("res")]
       IN  \E o \in EngineOutcomes("login", Undefined) :
             /\ calls' = Append(calls, Call("login", "login", args, o))
             /\ IF o.threw THEN Throw("login", o.value) /\ UNCHANGED res
                ELSE Send("login", Response(200, "json", o.value)) /\ UNCHANGED err
    /\ UNCHANGED <<config, req, query, user, invoked>>

Logout ==
    /\ Current = "logout"
    /\ LET args == [collection |-> Get(Params, ":collection"),
                    req |-> LiveReq, res |-> Obj("res")]
       IN  \E o \in EngineOutcomes("logout", Undefined) :
             /\ calls' = Append(calls, Call("logout", "logout", args, o))
             /\ IF o.threw THEN Throw("logout", o.value) /\ UNCHANGED res
                ELSE Send("logout", Response(200, "json", o.value)) /\ UNCHANGED err
    /\ UNCHANGED <<config, req, query, user, invoked>>

\* { ...result } without its sessions
WithoutSessions(result) ==
    IF result = Null THEN EmptyObject
    ELSE [k \in DOMAIN result \ {"sessions"} |-> result[k]]

Me ==
    /\ Current = "me"
    /\ IF NoUser(user)
       THEN /\ Throw("me", TypeError("Cannot destructure property 'id' of 'req.user'"))
            /\ UNCHANGED <<res, calls>>
       ELSE LET args == [collection |-> Get(Params, ":collection"),
                         id |-> Get(user, "id")]
            IN  \E o \in EngineOutcomes("findByID", Get(user, "id")) :
                  /\ calls' = Append(calls, Call("findByID", "me", args, o))
                  /\ IF o.threw THEN Throw("me", o.value) /\ UNCHANGED res
                     ELSE /\ Send("me", Response(200, "json", WithoutSessions(o.value)))
                          /\ UNCHANGED err
    /\ UNCHANGED <<config, req, query, user, invoked>>

\* query.depth ? parseInt(query.depth) : fallback
DepthOf(q, fallback) ==
    IF Truthy(Get(q, "depth")) THEN ParseInt(Get(q, "depth")) ELSE Num(fallback, 0)

\* { collection, depth, req, ...query }
FindArgs(collection, q) ==
    Spread([collection |-> collection, depth |-> DepthOf(q, 0), req |-> LiveReq], q)

\* { collection, id, depth, req, ...query }
FindByIDArgs(collection, id, q) ==
    Spread([collection |-> collection, id |-> id, depth |-> DepthOf(q, 2),
            req |-> LiveReq], q)

FindMany ==
    /\ Current = "findMany"
    /\ LET args == FindArgs(Get(Params, ":collection"), query)
       IN  \E o \in EngineOutcomes("find", Undefined) :
             /\ calls' = Append(calls, Call("find", "findMany", args, o))
             /\ IF o.threw THEN Throw("findMany", o.value) /\ UNCHANGED res
                ELSE /\ Send("findMany",
                             Response(200, "json",
                                      IF simple THEN o.value.docs ELSE o.value))
                     /\ UNCHANGED err
    /\ UNCHANGED <<config, req, query, user, invoked>>

Count ==
    /\ Current = "count"
    /\ LET args == FindArgs(Get(Params, ":collection"), query)
       IN  \E o \in EngineOutcomes("count", Undefined) :
             /\ calls' = Append(calls, Call("count", "count", args, o))
             /\ IF o.threw THEN Throw("count", o.value) /\ UNCHANGED res
                ELSE Send("count", Response(200, "json", o.value)) /\ UNCHANGED err
    /\ UNCHANGED <<config, req, query, user, invoked>>

\* `${collection} with ID ${id} not found.`
NotFoundBody(collection, id) ==
    [error |-> Str(StringOf(collection) \o <<" with ID ">> \o StringOf(id)
                   \o <<" not found.">>)]

FindByID ==
    /\ Current = "findByID"
    /\ LET collection == Get(Params, ":collection")
           id == Get(Params, ":id")
           args == FindByIDArgs(collection, id, query)
       IN  \E o \in EngineOutcomes("findByID", id) :
             /\ calls' = Append(calls, Call("findByID", "findByID", args, o))
             /\ IF o.threw THEN Throw("findByID", o.value) /\ UNCHANGED res
                ELSE IF o.value = Null
                THEN /\ Send("findByID",
                             Response(404, "json", NotFoundBody(collection, id)))
                     /\ UNCHANGED err
                ELSE Send("findByID", Response(200, "json", o.value)) /\ UNCHANGED err
    /\ UNCHANGED <<config, req, query, user, invoked>>

Create ==
    /\ Current = "create"
    /\ LET args == [collection |-> Get(Params, ":collection"), data |-> RequestBody]
       IN  \E o \in EngineOutcomes("create", Lit("8")) :
             /\ calls' = Append(calls, Call("create", "create", args, o))
             /\ IF o.threw THEN Throw("create", o.value) /\ UNCHANGED res
                ELSE Send("create", Response(201, "json", o.value)) /\ UNCHANGED err
    /\ UNCHANGED <<config, req, query, user, invoked>>

Update ==
    /\ Current = "update"
    /\ LET args == [collection |-> Get(Params, ":collection"),
                    id |-> Get(Params, ":id"), data |-> RequestBody]
       IN  \E o \in EngineOutcomes("update", Get(Params, ":id")) :
             /\ calls' = Append(calls, Call("update", "update", args, o))
             /\ IF o.threw THEN Throw("update", o.value) /\ UNCHANGED res
                ELSE Send("update", Response(200, "json", o.value)) /\ UNCHANGED err
    /\ UNCHANGED <<config, req, query, user, invoked>>

Delete ==
    /\ Current = "delete"
    /\ LET args == [collection |-> Get(Params, ":collection"),
                    id |-> Get(Params, ":id")]
       IN  \E o \in EngineOutcomes("delete", Get(Params, ":id")) :
             /\ calls' = Append(calls, Call("delete", "delete", args, o))
             /\ IF o.threw THEN Throw("delete", o.value) /\ UNCHANGED res
                ELSE Send("delete", Response(200, "json", o.value)) /\ UNCHANGED err
    /\ UNCHANGED <<config, req, query, user, invoked>>

(***************************************************************************)
(* Layer 12: the error handler.                                            *)
(***************************************************************************)
\* err.data?.errors
DataErrors(e) ==
    IF Get(e, "data") = Undefined THEN Undefined ELSE Get(Get(e, "data"), "errors")

\* string.includes(marker), the marker being one atom of the string
Includes(str, marker) == \E i \in 1..Len(str.s) : str.s[i] = marker

\* [err.message] in a JSON body: undefined is written as null.
JsonArray1(v) == <<IF v = Undefined THEN Null ELSE v>>

\* The branch the error handler takes for e: 400, 401, 404 or 500, or 0 when
\* reading err.message.includes throws.
Classify(e) ==
    IF Get(e, "name") = Lit("ValidationError") \/ Truthy(DataErrors(e)) THEN 400
    ELSE IF Get(e, "status") = Num(401, 0) THEN 401
    ELSE IF Get(e, "message").t # "string" THEN 0
    ELSE IF \/ Includes(Get(e, "message"), "Not Found")
            \/ Includes(Get(e, "message"), "Cast to ObjectId failed")
         THEN 404
    ELSE 500

ErrorBody(e, status) ==
    CASE status = 400 ->
            Json([error |-> Lit("Validation Failed"), message |-> Get(e, "message"),
                  data |-> Get(e, "data")])
      [] status = 401 ->
            [errors |-> [message |-> JsonArray1(Get(e, "message"))]]
      [] status = 404 ->
            [error |-> Lit("Resource Not Found"), message |-> Get(e, "message")]
      [] OTHER ->
            [error |-> Lit("Server Error"), message |-> Get(e, "message")]

ErrorHandler ==
    /\ Current = "errorHandler"
    /\ LET e == err[Len(err)]
           status == Classify(e)
       IN  IF status = 0
           THEN /\ Throw("errorHandler",
                         TypeError("Cannot read properties of undefined (reading 'includes')"))
                /\ UNCHANGED res
           ELSE /\ Send("errorHandler", Response(status, "json", ErrorBody(e, status)))
                /\ UNCHANGED err
    /\ UNCHANGED <<config, req, query, user, calls, invoked>>

Next ==
    \/ Receive
    \/ CustomEndpoint
    \/ CollectionCheck
    \/ PayloadJwtAuthMiddleware
    \/ IsAuthenticated
    \/ QueryParser
    \/ Login
    \/ Logout
    \/ Me
    \/ FindMany
    \/ Count
    \/ FindByID
    \/ Create
    \/ Update
    \/ Delete
    \/ ErrorHandler

Spec == Init /\ [][Next]_vars


(***************************************************************************)
(* Vocabulary of the properties.                                           *)
(***************************************************************************)
CrudHandlers == {"findMany", "count", "findByID", "create", "update", "delete"}

\* The route of the stack a request is for: the first route layer that
\* matches it, 0 when none does.
RouteLayer(rq) == Dispatch(2, rq, FALSE)

RouteHandler(rq) ==
    IF RouteLayer(rq) = 0 THEN ""
    ELSE Layers[RouteLayer(rq)].chain[Len(Layers[RouteLayer(rq)].chain)]

Times(who, what) == Cardinality({i \in 1..Len(log) : log[i] = Event(who, what)})

Ran(who) == \E i \in 1..Len(log) : log[i].who = who

Finished == exit # "none"

HasErrorKey(body) == DOMAIN body \cap {"error", "errors"} # {}

CallsBy(who) == {i \in 1..Len(calls) : calls[i].by = who}

\* C1: on each of the six collection routes a request without a resolved
\* user is answered 401 with an error body by the gate and the route's
\* engine operation is never called; with a resolved user the gate sends
\* nothing and calls next exactly once.
C1_GateBlocksAnonymous ==
    /\ (Finished /\ RouteHandler(req) \in CrudHandlers
            /\ Ran("payloadJwtAuthMiddleware"))
          => Ran("isAuthenticated")
    /\ (Ran("isAuthenticated") /\ user = Undefined)
          => /\ exit = "responded"
             /\ res.sent /\ res.status = 401 /\ HasErrorKey(res.body)
             /\ Times("isAuthenticated", "send") = 1
             /\ Times("isAuthenticated", "next") = 0
             /\ \A h \in CrudHandlers : CallsBy(h) = {} /\ ~Ran(h)
    /\ (Ran("isAuthenticated") /\ user # Undefined)
          => /\ Times("isAuthenticated", "next") = 1
             /\ Times("isAuthenticated", "send") = 0
    /\ \A h \in CrudHandlers :
          (Current = h \/ Ran(h) \/ CallsBy(h) # {})
             => user # Undefined /\ Times("isAuthenticated", "next") = 1

\* A DELETE of a record of a known collection, sent without Authorization
\* header, was answered 401 by the gate.
C1_Witness ==
    /\ exit = "responded"
    /\ req.method = "DELETE" /\ req.path = <<"api", "posts", "7">>
    /\ ~req.auth.present
    /\ user = Undefined
    /\ res.status = 401
    /\ Times("isAuthenticated", "send") = 1
    /\ calls = <<>>

\* C2: GET /api/:collection/me without a resolved user is answered 401 with
\* an error body and makes no record lookup.
C2_MeRequiresUser ==
    (Finished /\ RouteHandler(req) = "me" /\ Ran("payloadJwtAuthMiddleware")
        /\ user = Undefined)
      => /\ exit = "responded"
         /\ res.status = 401
         /\ HasErrorKey(res.body)
         /\ CallsBy("me") = {}


\* The request carries "Bearer <jwt>" with one blank, the JWT signed with
\* the key derived from the configured secret, not expired, with an id.
TokenIsGood ==
    /\ secret # <<>>
    /\ req.auth.present /\ req.auth.scheme = "Bearer" /\ req.auth.blanks = 1
    /\ req.auth.token.form = "jwt"
    /\ req.auth.token.key = [hash |-> "sha256-hex-32", of |-> secret]
    /\ ~req.auth.token.expired
    /\ req.auth.token.id # Undefined

\* The resolver's lookup of the user returned a record.
UserFound ==
    \E i \in CallsBy("payloadJwtAuthMiddleware") :
        ~calls[i].outcome.threw /\ calls[i].outcome.value # Null

\* C3: whatever the Authorization header holds, the resolver calls next
\* exactly once, without an error and without sending a response, and sets
\* the request's user only when the token verified and the user record was
\* found; so on a gated route a bad token, or a good token whose user is
\* missing or whose lookup throws, ends in the gate's 401 and never in 500.
C3_ResolverFailsOpen ==
    /\ Ran("payloadJwtAuthMiddleware")
          => /\ Times("payloadJwtAuthMiddleware", "next") = 1
             /\ \A what \in {"next(err)", "next(router)", "send"} :
                   Times("payloadJwtAuthMiddleware", what) = 0
    /\ (log # <<>> /\ log[Len(log)].who = "payloadJwtAuthMiddleware")
          => err = <<>> /\ ~res.sent /\ exit = "none"
    /\ user # Undefined
          => /\ TokenIsGood
             /\ \E i \in CallsBy("payloadJwtAuthMiddleware") :
                   /\ ~calls[i].outcome.threw
                   /\ calls[i].outcome.value = user
                   /\ calls[i].outcome.value # Null
                   /\ calls[i].args.id = req.auth.token.id
    /\ (Finished /\ RouteHandler(req) \in CrudHandlers
            /\ Ran("payloadJwtAuthMiddleware") /\ ~(TokenIsGood /\ UserFound))
          => /\ exit = "responded"
             /\ res.status = 401 /\ HasErrorKey(res.body)
             /\ err = <<>>
             /\ Times("isAuthenticated", "send") = 1

\* A good token whose user lookup threw: the request went on as anonymous
\* and the gate answered 401.
C3_Witness ==
    /\ exit = "responded"
    /\ TokenIsGood
    /\ \E i \in CallsBy("payloadJwtAuthMiddleware") : calls[i].outcome.threw
    /\ user = Undefined
    /\ Times("payloadJwtAuthMiddleware", "next") = 1
    /\ res.status = 401

\* The endpoints whose handler was called.
InvokedEndpoints == {endpoints[invoked[i]] : i \in 1..Len(invoked)}

\* C4: for a request under /api or /auth whose path is no collection's, the
\* handler of a registered endpoint is called if and only if the endpoint's
\* path is the request's path and its method, in upper case, the request's
\* method.
C4_InvokedIffExactMatch ==
    (Ran("customEndpoint") /\ req.path[2] \notin Collections)
      => \A e \in {x \in Range(endpoints) : x.handler} :
            (e \in InvokedEndpoints)
               <=> (e.path = req.path /\ ToUpperCase(e.method) = req.method)

\* C5: a request whose segment after the prefix names a collection is
\* passed on to the collection routes and no custom endpoint's handler is
\* called for it.
C5_CollectionsBeforeEndpoints ==
    (Ran("customEndpoint") /\ req.path[2] \in Collections)
      => invoked = <<>> /\ Times("customEndpoint", "next") = 1

\* An error was raised while the request was handled: a route handler's
\* promise was rejected, or the custom endpoint's handler or its json threw.
ErrorRaised ==
    \/ \E i \in 1..Len(log) : log[i].what = "next(err)"
    \/ invoked # <<>> /\ Times("customEndpoint", "next(router)") > 0

\* C6: every error raised on a route of the router reaches the error
\* handler, and the client gets a JSON body with an error or errors key and
\* status 400, 401, 404 or 500.
C6_ErrorHandlerIsTerminal ==
    (Finished /\ ErrorRaised)
      => /\ exit = "responded"
         /\ Times("errorHandler", "send") = 1
         /\ res.status \in {400, 401, 404, 500}
         /\ res.kind = "json" /\ HasErrorKey(res.body)

\* The outcome the classification order gives an error.
ExpectedStatus(e) ==
    IF \/ Get(e, "name") = Lit("ValidationError")
       \/ ("data" \in DOMAIN e /\ "errors" \in DOMAIN e.data)
    THEN 400
    ELSE IF Get(e, "status") = Num(401, 0) THEN 401
    ELSE IF /\ "message" \in DOMAIN e
            /\ {"Not Found", "Cast to ObjectId failed"} \cap Range(e.message.s) # {}
    THEN 404
    ELSE 500

\* C7: the error handler sends exactly one response for every error: 400
\* with error, message and data for a validation-shaped error, else 401 with
\* errors for status 401, else 404 for a not-found or invalid-identifier
\* message, else 500, also for an error value without any property.
C7_ClassifiedInOrder ==
    (Finished /\ Ran("errorHandler"))
      => /\ exit = "responded"
         /\ Times("errorHandler", "send") = 1
         /\ res.status = ExpectedStatus(err[1])
         /\ CASE res.status = 400 ->
                    "error" \in DOMAIN res.body
                        /\ DOMAIN res.body \subseteq {"error", "message", "data"}
              [] res.status = 401 -> DOMAIN res.body = {"errors"}
              [] OTHER ->
                    "error" \in DOMAIN res.body
                        /\ DOMAIN res.body \subseteq {"error", "message"}

\* C8: each of the six collection handlers hands the live request to the
\* engine in the call it forwards.
C8_RequestIsPassed ==
    \A i \in 1..Len(calls) :
        calls[i].by \in CrudHandlers => Get(calls[i].args, "req") = LiveReq

\* The integer the depth parameter of the request parses to, or the default.
ExpectedDepth(default) ==
    IF "depth" \in DOMAIN req.rawQuery
    THEN ParseInt(Str(req.rawQuery["depth"]))
    ELSE Num(default, 0)

\* C9: the depth the engine receives is an integer: the integer parse of
\* the depth parameter when one is given, else 0 for find and count and 2
\* for find-by-id.
C9_DepthIsInteger ==
    \A i \in 1..Len(calls) :
        /\ calls[i].by \in {"findMany", "count"}
              => /\ IsInteger(Get(calls[i].args, "depth"))
                 /\ Get(calls[i].args, "depth") = ExpectedDepth(0)
        /\ calls[i].by = "findByID"
              => /\ IsInteger(Get(calls[i].args, "depth"))
                 /\ Get(calls[i].args, "depth") = ExpectedDepth(2)

\* The engine reported the record absent: it returned none, or threw its
\* not-found error.
ReportedAbsent(o) ==
    \/ ~o.threw /\ o.value = Null
    \/ o.threw /\ o.value = [name |-> Lit("NotFound"), status |-> Num(404, 0),
                             message |-> Lit("Not Found")]

BodyContains(body, atom) ==
    \E k \in DOMAIN body \cap {"error", "message"} :
        body[k].t = "string" /\ atom \in Range(body[k].s)

\* C10: an authenticated GET /api/:collection/:id is answered 404 with a
\* body that holds the collection and the id whenever the engine reports the
\* record absent, and 200 with the record when it exists.
C10_MissingRecordIs404 ==
    \A i \in CallsBy("findByID") :
        Finished
          => /\ ReportedAbsent(calls[i].outcome)
                => /\ res.status = 404
                   /\ BodyContains(res.body, req.path[2])
                   /\ BodyContains(res.body, req.path[3])
             /\ (~calls[i].outcome.threw /\ calls[i].outcome.value # Null)
                => res.status = 200 /\ res.body = calls[i].outcome.value


\* A string that looks like a number: digits, or digits, a dot and a digit.
NumericLooking(a) ==
    \/ Len(a) >= 1 /\ \A i \in 1..Len(a) : a[i] \in Range(Digits)
    \/ /\ Len(a) >= 3
       /\ a[Len(a) - 1] = "."
       /\ \A i \in (1..Len(a)) \ {Len(a) - 1} : a[i] \in Range(Digits)

\* What the normalizer is to make of a raw value.
NormalizedValue(a) ==
    IF NumericLooking(a) THEN StringToNumber(a)
    ELSE IF a = <<"true">> THEN Bool(TRUE)
    ELSE IF a = <<"false">> THEN Bool(FALSE)
    ELSE Str(a)

\* C11: the query normalizer keeps the keys, turns a numeric-looking value
\* into its number, "true" and "false" into the booleans and leaves every
\* other string, the empty one too, as it is; it changes nothing but
\* req.query and calls next exactly once.
C11_QueryIsNormalized ==
    Ran("queryParser")
      => /\ DOMAIN query = DOMAIN req.rawQuery
         /\ \A k \in DOMAIN req.rawQuery :
               query[k] = NormalizedValue(req.rawQuery[k])
         /\ Times("queryParser", "next") = 1
         /\ Times("queryParser", "send") = 0
         /\ Times("queryParser", "next(err)") = 0


\* C12: for find-many, count and find-by-id the engine receives the
\* collection (and, for find-by-id, the id) of the URL path and the live
\* request, whatever the query string holds; no query key replaces them or
\* sets overrideAccess.
C12_QueryCannotRescope ==
    \A i \in 1..Len(calls) :
        calls[i].by \in {"findMany", "count", "findByID"}
          => /\ Get(calls[i].args, "collection") = Lit(req.path[2])
             /\ req.path[2] \in Collections
             /\ calls[i].by = "findByID"
                   => Get(calls[i].args, "id") = Lit(req.path[3])
             /\ Get(calls[i].args, "req") = LiveReq
             /\ ~Truthy(Get(calls[i].args, "overrideAccess"))

====
